---- MODULE Spec2Model ----
(***************************************************************************)
(* Model of HuobiSpotRestAPI: request, generate_signature and the endpoint  *)
(* methods that call request (src/alpha/platforms/huobi_spot_api.py).       *)
(*                                                                          *)
(* Python str values are TLA+ strings; TLC evaluates Len, \o and SubSeq on  *)
(* them, so the string functions below work character by character.         *)
(***************************************************************************)
EXTENDS Integers, Sequences, FiniteSets, TLC

(***************************************************************************)
(* Python values.                                                           *)
(***************************************************************************)

\* A Python value of the kinds the dispatcher handles: None, a str, a dict (its
\* <<key, value>> items in insertion order), a list, or an exception object.
PyNone == [type |-> "NoneType", s |-> "", items |-> <<>>]

PyStr(s) == [type |-> "str", s |-> s, items |-> <<>>]

PyDict(items) == [type |-> "dict", s |-> "", items |-> items]

PyList(items) == [type |-> "list", s |-> "", items |-> items]

PyExc(name) == [type |-> "Exception", s |-> name, items |-> <<>>]

\* An int, held as its decimal digits.
PyInt(digits) == [type |-> "int", s |-> digits, items |-> <<>>]

\* bool(v)
Truthy(v) ==
    CASE v.type = "NoneType" -> FALSE
      [] v.type = "str" -> v.s # ""
      [] v.type = "int" -> v.s # "0"
      [] v.type \in {"dict", "list"} -> v.items # <<>>
      [] OTHER -> TRUE

\* str(v), for v a str, an int or None.
StrOf(v) == IF v.type = "NoneType" THEN "None" ELSE v.s

(***************************************************************************)
(* Characters and strings.                                                  *)
(***************************************************************************)

\* The printable ASCII characters of code 32 to 95 and of code 97 to 126, in code
\* order (code 96, the grave accent, cannot be written in a TLA+ string).
PrintableLow == " !\"#$%&'()*+,-./0123456789:;<=>?@ABCDEFGHIJKLMNOPQRSTUVWXYZ[\\]^_"

PrintableHigh == "abcdefghijklmnopqrstuvwxyz{|}~"

At(s, i) == SubSeq(s, i, i)

\* The index of the one-character string ch in s, or 0.
IndexIn(s, ch) ==
    IF \E i \in 1..Len(s) : At(s, i) = ch
    THEN CHOOSE i \in 1..Len(s) : At(s, i) = ch
    ELSE 0

\* The characters of s.
CharsOf(s) == {At(s, i) : i \in 1..Len(s)}

\* The characters strings are made of here.
Chars == CharsOf(PrintableLow) \cup CharsOf(PrintableHigh) \cup {"\n"}

\* ord(ch): the code point of a one-character string (line feed is 10).
Ord ==
    [ch \in Chars |->
        IF ch = "\n" THEN 10
        ELSE IF IndexIn(PrintableLow, ch) > 0 THEN 31 + IndexIn(PrintableLow, ch)
        ELSE 96 + IndexIn(PrintableHigh, ch)]

\* chr(n), for the codes above.
Chr(n) == IF n <= 95 THEN At(PrintableLow, n - 31) ELSE At(PrintableHigh, n - 96)

\* ch.lower()
LowerChar == [ch \in Chars |-> IF Ord[ch] >= 65 /\ Ord[ch] <= 90 THEN Chr(Ord[ch] + 32) ELSE ch]

\* str.startswith
StartsWith(s, p) == Len(s) >= Len(p) /\ SubSeq(s, 1, Len(p)) = p

\* i, or otherwise when i is 0.
IfFound(i, otherwise) == IF i = 0 THEN otherwise ELSE i

\* The first index i in lo..hi with s[i] in the set chars, or 0 (by halving, so
\* that the evaluation of a long string stays shallow).
RECURSIVE FirstIn(_, _, _, _)
FirstIn(s, chars, lo, hi) ==
    IF lo > hi THEN 0
    ELSE IF lo = hi THEN (IF At(s, lo) \in chars THEN lo ELSE 0)
    ELSE IfFound(FirstIn(s, chars, lo, (lo + hi) \div 2),
                 FirstIn(s, chars, (lo + hi) \div 2 + 1, hi))

\* The first index i >= from with s[i] in the set chars, or Len(s) + 1.
FindFrom(s, chars, from) == IfFound(FirstIn(s, chars, from, Len(s)), Len(s) + 1)

\* The last index i with s[i] = ch, or 0.
RECURSIVE RFind(_, _, _)
RFind(s, ch, i) ==
    IF i = 0 THEN 0
    ELSE IF At(s, i) = ch THEN i
    ELSE RFind(s, ch, i - 1)

\* str.lower, on ASCII.
RECURSIVE Lower(_)
Lower(s) ==
    IF s = "" THEN ""
    ELSE IF Len(s) = 1 THEN LowerChar[s]
    ELSE Lower(SubSeq(s, 1, Len(s) \div 2)) \o Lower(SubSeq(s, Len(s) \div 2 + 1, Len(s)))

\* Python's ordering of str: by code point, a proper prefix first.
RECURSIVE StrLess(_, _)
StrLess(a, b) ==
    IF b = "" THEN FALSE
    ELSE IF a = "" THEN TRUE
    ELSE IF At(a, 1) = At(b, 1)
         THEN StrLess(SubSeq(a, 2, Len(a)), SubSeq(b, 2, Len(b)))
    ELSE Ord[At(a, 1)] < Ord[At(b, 1)]

\* s.split(sep) for a one-character sep: the sequence of the pieces.
RECURSIVE SplitAt(_, _, _)
SplitAt(s, sep, i) ==
    IF i > Len(s) THEN <<s>>
    ELSE <<SubSeq(s, 1, i - 1)>>
         \o SplitAt(SubSeq(s, i + 1, Len(s)), sep,
                    FindFrom(SubSeq(s, i + 1, Len(s)), {sep}, 1))

Split(s, sep) == SplitAt(s, sep, FindFrom(s, {sep}, 1))

\* sep.join(parts)
RECURSIVE Join(_, _)
Join(sep, parts) ==
    IF parts = <<>> THEN ""
    ELSE IF Len(parts) = 1 THEN parts[1]
    ELSE parts[1] \o sep \o Join(sep, Tail(parts))

(***************************************************************************)
(* dict operations on insertion-ordered items.                              *)
(***************************************************************************)

Keys(items) == {items[i][1] : i \in 1..Len(items)}

\* d[k], for k a key of d.
Lookup(items, k) == items[CHOOSE i \in 1..Len(items) : items[i][1] = k][2]

\* d.get(k): None when k is no key of d.
Get(items, k) == IF k \in Keys(items) THEN Lookup(items, k) ELSE PyNone

\* d[k] = v: an existing key keeps its position, a new key is appended.
SetItem(items, k, v) ==
    IF k \in Keys(items)
    THEN [i \in 1..Len(items) |-> IF items[i][1] = k THEN <<k, v>> ELSE items[i]]
    ELSE Append(items, <<k, v>>)

\* d.update(other): other's items are set in other's order.
RECURSIVE Update(_, _)
Update(items, other) ==
    IF other = <<>> THEN items
    ELSE Update(SetItem(items, other[1][1], other[1][2]), Tail(other))

\* The items of d without key k.
RECURSIVE Without(_, _)
Without(items, k) ==
    IF items = <<>> THEN <<>>
    ELSE IF items[1][1] = k THEN Without(Tail(items), k)
    ELSE <<items[1]>> \o Without(Tail(items), k)

\* sorted(items, key=lambda d: d[0]): a stable sort by key (insertion sort).
RECURSIVE InsertByKey(_, _)
InsertByKey(sorted, item) ==
    IF sorted = <<>> THEN <<item>>
    ELSE IF StrLess(item[1], sorted[1][1]) THEN <<item>> \o sorted
    ELSE <<sorted[1]>> \o InsertByKey(Tail(sorted), item)

RECURSIVE SortedByKey(_)
SortedByKey(items) ==
    IF items = <<>> THEN <<>>
    ELSE InsertByKey(SortedByKey(SubSeq(items, 1, Len(items) - 1)), items[Len(items)])

(***************************************************************************)
(* urllib.parse                                                             *)
(***************************************************************************)

HexDigits == "0123456789ABCDEF"

\* The characters quote_plus never quotes.
AlwaysSafe == CharsOf("ABCDEFGHIJKLMNOPQRSTUVWXYZabcdefghijklmnopqrstuvwxyz0123456789_.-~")

\* quote_plus of one character: a space becomes "+", an unreserved character is
\* kept, every other character becomes %XX (all characters here are ASCII).
QuoteChar ==
    [ch \in Chars |->
        IF ch = " " THEN "+"
        ELSE IF ch \in AlwaysSafe THEN ch
        ELSE "%" \o At(HexDigits, (Ord[ch] \div 16) + 1) \o At(HexDigits, (Ord[ch] % 16) + 1)]

\* urllib.parse.quote_plus(s)
RECURSIVE quote_plus(_)
quote_plus(s) ==
    IF s = "" THEN ""
    ELSE IF Len(s) = 1 THEN QuoteChar[s]
    ELSE quote_plus(SubSeq(s, 1, Len(s) \div 2))
         \o quote_plus(SubSeq(s, Len(s) \div 2 + 1, Len(s)))

\* urllib.parse.urlencode(pairs): quote_plus(k) = quote_plus(str(v)), joined by &.
urlencode(pairs) ==
    Join("&", [i \in 1..Len(pairs) |->
                   quote_plus(pairs[i][1]) \o "=" \o quote_plus(StrOf(pairs[i][2]))])

SchemeChars == CharsOf("abcdefghijklmnopqrstuvwxyzABCDEFGHIJKLMNOPQRSTUVWXYZ0123456789+-.")

\* The index of the colon that ends url's scheme, or 0 when url has no scheme
\* (urlsplit: a non-empty run of scheme characters before the first colon).
SchemeColon(url) ==
    LET c == FindFrom(url, {":"}, 1)
    IN IF c > 1 /\ c <= Len(url)
          /\ \A i \in 1..(c - 1) : At(url, i) \in SchemeChars
       THEN c ELSE 0

\* urlsplit(url).netloc: what follows "//" after the scheme, up to the first of / ? #.
Netloc(url) ==
    LET rest == SubSeq(url, SchemeColon(url) + 1, Len(url))
    IN IF StartsWith(rest, "//")
       THEN SubSeq(rest, 3, FindFrom(rest, {"/", "?", "#"}, 3) - 1)
       ELSE ""

\* urlparse(url).hostname: the netloc without userinfo and port, lower-cased;
\* None when it is empty (bracketed IPv6 hosts are not modelled).
Hostname(url) ==
    LET netloc == Netloc(url)
        hostinfo == SubSeq(netloc, RFind(netloc, "@", Len(netloc)) + 1, Len(netloc))
        name == SubSeq(hostinfo, 1, FindFrom(hostinfo, {":"}, 1) - 1)
    IN IF name = "" THEN PyNone ELSE PyStr(Lower(name))

\* urljoin(base, uri) for a base scheme://netloc[/path] and a uri without scheme:
\* the empty uri gives the base, a uri that starts with / replaces the base's path,
\* any other uri replaces the last segment of the base's path (uris with . or ..
\* segments, or that start with //, are not modelled).
urljoin(base, uri) ==
    LET c == SchemeColon(base)
        pathAt == FindFrom(base, {"/", "?", "#"}, c + 3)
        origin == SubSeq(base, 1, pathAt - 1)
        basePath == SubSeq(base, pathAt, FindFrom(base, {"?", "#"}, pathAt) - 1)
        dir == SubSeq(basePath, 1, RFind(basePath, "/", Len(basePath)))
    IN IF uri = "" THEN base
       ELSE IF StartsWith(uri, "/") THEN origin \o uri
       ELSE origin \o (IF dir = "" THEN "/" ELSE dir) \o uri

(***************************************************************************)
(* State.                                                                   *)
(***************************************************************************)

VARIABLES
    host,        \* self._host
    access_key,  \* self._access_key
    secret_key,  \* self._secret_key
    now,         \* the UTC clock, in seconds
    heap,        \* the callers' dict objects: object id -> items
    running,     \* the call the event loop is running (0: none); a call keeps it
                 \* from its entry to its await of the transport
    pc,          \* per call: where the call is
    args,        \* per call: the arguments of request()
    entry,       \* per call: the params argument's value when the call was entered
    url,         \* per call: the local url
    params,      \* per call: the local params: None, a caller's dict object, or
                 \* the dict line 568 creates
    stamps,      \* per call: the timestamps line 567 captured, in order
    signed,      \* per call: the invocations of generate_signature, in order
    sent,        \* per call: the invocations of AsyncHttpRequests.fetch, in order
    reply,       \* per call: the (success, error) the transport returned
    outcome,     \* per call: how the call ended
    endpoint     \* per call: the endpoint method that made it ("": request() was
                 \* called directly)

vars == <<host, access_key, secret_key, now, heap, running, pc, args, entry, url,
          params, stamps, signed, sent, reply, outcome, endpoint>>

(***************************************************************************)
(* The Signature Engine: generate_signature.                                *)
(***************************************************************************)

IsAbsolute(uri) == StartsWith(uri, "http://") \/ StartsWith(uri, "https://")

\* host_url before .lower() (lines 599-603): the hostname of an absolute
\* request_path, else the hostname of the configured host.
SignedHost(request_path) ==
    IF IsAbsolute(request_path) THEN Hostname(request_path) ELSE Hostname(host)

\* request_path as signed (lines 599-601): an absolute one is cut after its third /.
SignedPath(request_path) ==
    IF IsAbsolute(request_path)
    THEN LET parts == Split(request_path, "/")
         IN "/" \o Join("/", SubSeq(parts, 4, Len(parts)))
    ELSE request_path

\* The first field of the payload (line 606).
SignedMethod(method) == method

\* The query string of the payload (lines 604-605).
EncodedParams(items) == urlencode(SortedByKey(items))

\* The canonical payload (lines 604-607), for a host_url that is a str.
CanonicalPayload(method, items, request_path) ==
    Join("\n", <<SignedMethod(method), SignedHost(request_path).s,
                 SignedPath(request_path), EncodedParams(items)>>)

\* base64.b64encode(hmac.new(key, msg, sha256).digest()).decode() (lines 610-612),
\* as an ideal MAC: the term determines key and message, so two digests are equal
\* exactly when their keys and messages are.
HmacSha256Base64(key, msg) == "hmac-sha256(" \o key \o "," \o msg \o ")"

\* generate_signature(method, params, request_path): exc is "" and value the
\* signature, or exc names the exception raised; payload is the canonical payload
\* when line 607 was reached. None.lower() at lines 600/603 and None.encode() at
\* line 609 raise AttributeError.
SignPayload(payload) ==
    IF secret_key.type = "NoneType"
    THEN [exc |-> "AttributeError", value |-> "", payload |-> <<payload>>]
    ELSE [exc |-> "", value |-> HmacSha256Base64(secret_key.s, payload),
          payload |-> <<payload>>]

generate_signature(method, items, request_path) ==
    IF SignedHost(request_path).type = "NoneType"
    THEN [exc |-> "AttributeError", value |-> "", payload |-> <<>>]
    ELSE SignPayload(CanonicalPayload(method, items, request_path))

(***************************************************************************)
(* Bounds and inputs.                                                       *)
(***************************************************************************)

\* The calls of request() made on the client.
MaxCalls == 2

\* The seconds the clock advances.
MaxClock == 1

Calls == 1..MaxCalls

\* The constructor's arguments.
Hosts == {"https://api.huobi.pro"}

AccessKeys == {PyNone, PyStr(""), PyStr("AK")}

SecretKeys == {PyNone, PyStr(""), PyStr("SK")}

\* The dict objects callers hold and may pass as params, more than once: the same
\* items in two insertion orders, an empty dict, and a dict as an earlier
\* authenticated call left it.
CallerDicts ==
    << <<<<"symbol", PyStr("btcusdt")>>, <<"type", PyStr("step0")>>>>,
       <<<<"type", PyStr("step0")>>, <<"symbol", PyStr("btcusdt")>>>>,
       <<>>,
       <<<<"symbol", PyStr("btcusdt")>>, <<"AccessKeyId", PyStr("AK")>>,
         <<"SignatureMethod", PyStr("HmacSHA256")>>, <<"SignatureVersion", PyStr("2")>>,
         <<"Timestamp", PyStr("2020-09-09T23:59:59")>>,
         <<"Signature", PyStr("c3RhbGU=")>>>> >>

Methods == {"GET", "POST", "PUT", "DELETE", "get"}

Uris == {"/market/depth", "https://Api.Example.com/v1/x",
         "https://api.example.com/v1/x?cur=btc"}

Bodies == {PyNone, PyDict(<<<<"symbol", PyStr("btcusdt")>>, <<"amount", PyStr("1")>>>>)}

HeaderDicts ==
    {PyNone, PyDict(<<<<"Content-type", PyStr("text/plain")>>>>),
     PyDict(<<<<"X-Trace", PyStr("1")>>>>)}

\* The arguments of one call; params is 0 for None, else the id of a caller's dict.
Requests ==
    [method : Methods, uri : Uris, params : 0..Len(CallerDicts), body : Bodies,
     headers : HeaderDicts, auth : BOOLEAN]

\* The arguments of the calls that run side by side.
SharedRequests ==
    [method : {"GET", "POST"}, uri : {"/market/depth"}, params : {0, 1},
     body : {PyNone}, headers : {PyNone}, auth : BOOLEAN]

NoArgs ==
    [method |-> "", uri |-> "", params |-> 0, body |-> PyNone, headers |-> PyNone,
     auth |-> FALSE]

\* The envelopes the exchange answers with.
OkEnvelope == <<<<"status", PyStr("ok")>>, <<"data", PyStr("1")>>>>

ErrorEnvelope ==
    <<<<"status", PyStr("error")>>, <<"err-code", PyStr("order-orderstate-error")>>>>

\* json.loads(text), for the response texts below: exc is "" and value the decoded
\* value, or exc names the exception raised.
json_loads(text) ==
    CASE text = "{\"status\":\"ok\",\"data\":\"1\"}" ->
             [exc |-> "", value |-> PyDict(OkEnvelope)]
      [] text = "{\"status\":\"error\",\"err-code\":\"order-orderstate-error\"}" ->
             [exc |-> "", value |-> PyDict(ErrorEnvelope)]
      [] text = "{}" -> [exc |-> "", value |-> PyDict(<<>>)]
      [] text = "[]" -> [exc |-> "", value |-> PyList(<<>>)]
      [] text = "null" -> [exc |-> "", value |-> PyNone]
      [] OTHER -> [exc |-> "JSONDecodeError", value |-> PyNone]

\* What AsyncHttpRequests.fetch returns as (success, error): a transport error, or
\* a body that is an already-decoded dict or a text.
Responses ==
    {[success |-> PyNone, error |-> e] :
        e \in {PyExc("TimeoutError"), PyStr("502 Bad Gateway")}}
    \cup
    {[success |-> b, error |-> PyNone] :
        b \in {PyDict(OkEnvelope), PyDict(ErrorEnvelope), PyDict(<<>>),
               PyStr("{\"status\":\"ok\",\"data\":\"1\"}"),
               PyStr("{\"status\":\"error\",\"err-code\":\"order-orderstate-error\"}"),
               PyStr("[]"), PyStr("<html>502</html>")}}

\* alpha.const.USER_AGENT
USER_AGENT == "alpha.const.USER_AGENT"

\* The timeout of every transport call.
Timeout == 10

\* datetime.utcnow().strftime("%Y-%m-%dT%H:%M:%S") when the clock reads n seconds
\* (n < 60) after 2020-09-10 00:00:00.
Strftime(n) ==
    "2020-09-10T00:00:" \o At("0123456789", (n \div 10) + 1) \o At("0123456789", (n % 10) + 1)

(***************************************************************************)
(* The Request Dispatcher: request.                                         *)
(***************************************************************************)

NoParams == [kind |-> "none", id |-> 0, items |-> <<>>]

\* The items of call c's params dict.
ParamItems(c) == IF params[c].kind = "ref" THEN heap[params[c].id] ELSE params[c].items

\* Call c's params as a Python value.
ParamsValue(c) == IF params[c].kind = "none" THEN PyNone ELSE PyDict(ParamItems(c))

NoReply == [success |-> PyNone, error |-> PyNone, received |-> FALSE]

NoOutcome == [kind |-> "none", result |-> PyNone, error |-> PyNone, exc |-> ""]

Returned(result, error) == [kind |-> "return", result |-> result, error |-> error, exc |-> ""]

Raised(exc) == [kind |-> "raise", result |-> PyNone, error |-> PyNone, exc |-> exc]

Init ==
    /\ host \in Hosts
    /\ access_key \in AccessKeys
    /\ secret_key \in SecretKeys
    /\ now = 0
    /\ heap = CallerDicts
    /\ running = 0
    /\ pc = [c \in Calls |-> "Idle"]
    /\ args = [c \in Calls |-> NoArgs]
    /\ entry = [c \in Calls |-> PyNone]
    /\ url = [c \in Calls |-> ""]
    /\ params = [c \in Calls |-> NoParams]
    /\ stamps = [c \in Calls |-> <<>>]
    /\ signed = [c \in Calls |-> <<>>]
    /\ sent = [c \in Calls |-> <<>>]
    /\ reply = [c \in Calls |-> NoReply]
    /\ outcome = [c \in Calls |-> NoOutcome]
    /\ endpoint = [c \in Calls |-> ""]

\* The clock advances.
Tick ==
    /\ now < MaxClock
    /\ now' = now + 1
    /\ UNCHANGED <<endpoint, host, access_key, secret_key, heap, running, pc, args, entry, url,
                   params, stamps, signed, sent, reply, outcome>>

\* The resolved url (lines 561-564).
ResolveUrl(uri) == IF IsAbsolute(uri) THEN uri ELSE urljoin(host, uri)

\* request(method, uri, params, body, headers, auth) is entered with arguments drawn
\* from reqs, and resolves the url (lines 546-564). Calls are entered in the order
\* of their numbers.
Call(c, reqs) ==
    /\ running = 0
    /\ pc[c] = "Idle"
    /\ \A d \in Calls : d < c => pc[d] # "Idle"
    /\ \E req \in reqs :
        /\ args' = [args EXCEPT ![c] = req]
        /\ entry' = [entry EXCEPT ![c] =
                        IF req.params = 0 THEN PyNone ELSE PyDict(heap[req.params])]
        /\ url' = [url EXCEPT ![c] = ResolveUrl(req.uri)]
        /\ params' = [params EXCEPT ![c] =
                         IF req.params = 0 THEN NoParams
                         ELSE [kind |-> "ref", id |-> req.params, items |-> <<>>]]
    /\ pc' = [pc EXCEPT ![c] = "Building"]
    /\ running' = c
    /\ UNCHANGED <<endpoint, host, access_key, secret_key, now, heap, stamps, signed, sent, reply,
                   outcome>>

\* AuthFields without the SignatureVersion entry.
AuthFieldsNoVersion(timestamp) ==
    << <<"AccessKeyId", access_key>>,
       <<"SignatureMethod", PyStr("HmacSHA256")>>,
       <<"Timestamp", PyStr(timestamp)>> >>

\* The four auth fields merged into params before signing (lines 569-572).
AuthFields(timestamp) ==
    << <<"AccessKeyId", access_key>>,
       <<"SignatureMethod", PyStr("HmacSHA256")>>,
       <<"SignatureVersion", PyStr("2")>>,
       <<"Timestamp", PyStr(timestamp)>> >>

\* Whether the call augments its params (line 566).
NeedsAuth(c) == args[c].auth

\* Call c's params dict becomes items: in place in the caller's object, or in the
\* call's own dict.
WriteParams(c, target, items) ==
    IF target.kind = "ref"
    THEN /\ heap' = [heap EXCEPT ![target.id] = items]
         /\ params' = [params EXCEPT ![c] = target]
    ELSE /\ heap' = heap
         /\ params' = [params EXCEPT ![c] = [target EXCEPT !.items = items]]

\* An authenticated call captures the timestamp, replaces a falsy params by a new
\* dict and merges the auth fields into it (lines 566-572).
Augment(c) ==
    /\ running = c
    /\ pc[c] = "Building"
    /\ NeedsAuth(c)
    /\ LET timestamp == Strftime(now)
           target == IF Truthy(ParamsValue(c)) THEN params[c]
                     ELSE [kind |-> "own", id |-> 0, items |-> <<>>]
           before == IF Truthy(ParamsValue(c)) THEN ParamItems(c) ELSE <<>>
       IN /\ stamps' = [stamps EXCEPT ![c] = Append(@, timestamp)]
          /\ WriteParams(c, target, Update(before, AuthFields(timestamp)))
    /\ pc' = [pc EXCEPT ![c] = "Signing"]
    /\ UNCHANGED <<endpoint, host, access_key, secret_key, now, running, args, entry, url, signed,
                   sent, reply, outcome>>

\* Line 574 once generate_signature has returned g or raised: the signature is
\* stored under Signature, or the exception leaves request().
StoreSignature(c, g) ==
    /\ signed' = [signed EXCEPT ![c] =
                     Append(@, [method |-> args[c].method, items |-> ParamItems(c),
                                request_path |-> args[c].uri, payload |-> g.payload])]
    /\ IF g.exc # ""
       THEN /\ pc' = [pc EXCEPT ![c] = "Raised"]
            /\ outcome' = [outcome EXCEPT ![c] = Raised(g.exc)]
            /\ running' = 0
            /\ UNCHANGED <<heap, params>>
       ELSE /\ pc' = [pc EXCEPT ![c] = "Signed"]
            /\ WriteParams(c, params[c],
                           SetItem(ParamItems(c), "Signature", PyStr(g.value)))
            /\ UNCHANGED <<outcome, running>>

\* params["Signature"] = self.generate_signature(method, params, uri) (line 574).
Sign(c) ==
    /\ running = c
    /\ pc[c] = "Signing"
    /\ StoreSignature(c, generate_signature(args[c].method, ParamItems(c), args[c].uri))
    /\ UNCHANGED <<endpoint, host, access_key, secret_key, now, args, entry, url, stamps, sent,
                   reply>>

\* The headers of the transport call (lines 576-580, 583-585).
RequestHeaders(method, headers) ==
    LET h == IF Truthy(headers) THEN headers.items ELSE <<>>
    IN IF method = "GET"
       THEN Update(h, << <<"Content-type", PyStr("application/x-www-form-urlencoded")>>,
                         <<"User-Agent", PyStr(USER_AGENT)>> >>)
       ELSE Update(h, << <<"Accept", PyStr("application/json")>>,
                         <<"Content-type", PyStr("application/json")>>,
                         <<"User-Agent", PyStr(USER_AGENT)>> >>)

\* RequestData with the body passed for GET too.
RequestDataAlways(method, body) == body

\* The body of the transport call (lines 581, 586): GET passes no data.
RequestData(method, body) == IF method = "GET" THEN PyNone ELSE body

\* The method of the transport call (lines 581, 586).
TransportMethod(method) == IF method = "GET" THEN "GET" ELSE "POST"

\* The invocation AsyncHttpRequests.fetch(...) of call c (lines 576-587). The
\* transport receives params as it is at the invocation.
FetchCall(c) ==
    [method |-> TransportMethod(args[c].method),
     url |-> url[c],
     params |-> ParamsValue(c),
     data |-> RequestData(args[c].method, args[c].body),
     headers |-> RequestHeaders(args[c].method, args[c].headers),
     timeout |-> Timeout]

\* The call selects the encoding, invokes the transport and awaits it
\* (lines 576-587).
Send(c) ==
    /\ running = c
    /\ pc[c] \in (IF NeedsAuth(c) THEN {"Signed"} ELSE {"Building"})
    /\ sent' = [sent EXCEPT ![c] = Append(@, FetchCall(c))]
    /\ pc' = [pc EXCEPT ![c] = "InFlight"]
    /\ running' = 0
    /\ UNCHANGED <<endpoint, host, access_key, secret_key, now, heap, args, entry, url, params,
                   stamps, signed, reply, outcome>>

\* What request() does with the transport's (success, error) (lines 588-596).
\* json.loads(None) raises TypeError; .get on a value that is no dict raises
\* AttributeError.
Interpret(success, error) ==
    IF Truthy(error) THEN Returned(PyNone, error)
    ELSE LET decoded == IF success.type = "dict" THEN [exc |-> "", value |-> success]
                        ELSE IF success.type = "str" THEN json_loads(success.s)
                        ELSE [exc |-> "TypeError", value |-> PyNone]
         IN IF decoded.exc # "" THEN Raised(decoded.exc)
            ELSE IF decoded.value.type # "dict" THEN Raised("AttributeError")
            ELSE IF Get(decoded.value.items, "status") # PyStr("ok")
                 THEN Returned(PyNone, decoded.value)
            ELSE Returned(decoded.value, PyNone)

\* Where a call is once it ended with outcome o after the transport returned
\* (success, error).
EndState(error, o) ==
    IF o.kind = "raise" THEN "Raised"
    ELSE IF Truthy(error) THEN "TransportFailed"
    ELSE IF o.result.type = "NoneType" THEN "ApplicationRejected"
    ELSE "Succeeded"

\* Respond with a transport error answered by invoking the transport again.
RespondRetrying(c, rs) ==
    /\ running = 0
    /\ pc[c] = "InFlight"
    /\ \E r \in rs :
        LET o == Interpret(r.success, r.error)
        IN /\ reply' = [reply EXCEPT ![c] =
                            [success |-> r.success, error |-> r.error, received |-> TRUE]]
           /\ IF Truthy(r.error)
              THEN /\ sent' = [sent EXCEPT ![c] = Append(@, FetchCall(c))]
                   /\ UNCHANGED <<outcome, pc>>
              ELSE /\ outcome' = [outcome EXCEPT ![c] = o]
                   /\ pc' = [pc EXCEPT ![c] = EndState(r.error, o)]
                   /\ sent' = sent
    /\ UNCHANGED <<endpoint, host, access_key, secret_key, now, heap, running, args, entry, url,
                   params, stamps, signed>>

\* The transport answers call c with a response drawn from rs and the call ends
\* (lines 581/586-596).
Respond(c, rs) ==
    /\ running = 0
    /\ pc[c] = "InFlight"
    /\ \E r \in rs :
        LET o == Interpret(r.success, r.error)
        IN /\ reply' = [reply EXCEPT ![c] =
                            [success |-> r.success, error |-> r.error, received |-> TRUE]]
           /\ outcome' = [outcome EXCEPT ![c] = o]
           /\ pc' = [pc EXCEPT ![c] = EndState(r.error, o)]
    /\ UNCHANGED <<endpoint, host, access_key, secret_key, now, heap, running, args, entry, url,
                   params, stamps, signed, sent>>

(***************************************************************************)
(* The endpoint methods (lines 44-544): each builds a uri and a params or   *)
(* body dict from its arguments and delegates to request().                 *)
(***************************************************************************)

\* An endpoint method reached its call self.request(method, uri, params=..., body=...,
\* auth=...); a keyword it does not pass has request()'s default.
Delegates(name, method, uri, params_arg, body, auth) ==
    [endpoint |-> name, exc |-> "", method |-> method, uri |-> uri,
     params |-> params_arg, body |-> body, auth |-> auth]

\* An endpoint method raised exc before it reached its call of request().
Fails(name, exc) ==
    [endpoint |-> name, exc |-> exc, method |-> "", uri |-> "", params |-> PyNone,
     body |-> PyNone, auth |-> FALSE]

\* if cond: d[k] = v (also d.update({k: v}))
SetIf(cond, items, k, v) == IF cond THEN SetItem(items, k, v) ELSE items

\* sep.join(v) for v a list of str, or a str (joined character by character).
str_join(sep, v) ==
    IF v.type = "str" THEN PyStr(Join(sep, [i \in 1..Len(v.s) |-> At(v.s, i)]))
    ELSE PyStr(Join(sep, [i \in 1..Len(v.items) |-> v.items[i].s]))

\* Lines 44-62: the test of line 59 reads etp_code, a name bound nowhere.
get_etp_reference(etpName) == Fails("get_etp_reference", "NameError")

\* Lines 369-388 (the definition of lines 65-84 is replaced by this equal one).
get_orderbook(symbol, depth) ==
    LET p0 == << <<"symbol", symbol>>, <<"type", PyStr("step0")>> >>
        p1 == SetIf(Truthy(depth), p0, "depth", depth)
    IN Delegates("get_orderbook", "GET", "/market/depth", PyDict(p1), PyNone, FALSE)

\* Lines 86-107.
get_klines(symbol, period, size) ==
    LET p0 == << <<"symbol", symbol>>, <<"period", period>> >>
        p1 == SetIf(Truthy(size), p0, "size", size)
    IN Delegates("get_klines", "GET", "/market/history/kline", PyDict(p1), PyNone, FALSE)

\* Lines 110-125.
get_etp_nav(symbol) ==
    Delegates("get_etp_nav", "GET", "/market/etp", PyDict(<< <<"symbol", symbol>> >>),
              PyNone, FALSE)

\* Lines 128-161: line 155 reads souce and line 159 reads operator, names bound
\* nowhere.
create_order(account_id, symbol, _type, amount, price, source, client_order_id, stop_price, operater) ==
    LET b0 == << <<"account-id", account_id>>, <<"symbol", symbol>>, <<"type", _type>>,
                 <<"amount", amount>> >>
        b1 == SetIf(Truthy(client_order_id), b0, "client_order_id", client_order_id)
        b2 == SetIf(Truthy(price), b1, "price", price)
        b3 == SetIf(Truthy(stop_price), b2, "stop_price", stop_price)
    IN IF Truthy(source) \/ Truthy(operater) THEN Fails("create_order", "NameError")
       ELSE Delegates("create_order", "POST", "/v1/order/orders/place", PyNone,
                      PyDict(b3), TRUE)

\* Lines 163-178.
create_orders(source, orders_data) ==
    Delegates("create_orders", "POST", "/v1/order/batch-orders", PyNone, orders_data,
              TRUE)

\* Lines 181-197.
revoke_order(order_id) ==
    Delegates("revoke_order", "POST", "/v1/order/orders/" \o order_id.s \o "/submitcancel",
              PyNone, PyDict(<< <<"order_id", order_id>> >>), TRUE)

\* Lines 200-216.
revoke_client_order(client_order_id) ==
    Delegates("revoke_client_order", "POST", "/v1/order/orders/submitCancelClientOrder",
              PyNone, PyDict(<< <<"client-order-id", client_order_id>> >>), TRUE)

\* Lines 218-235.
revoke_orders(order_ids, client_order_ids) ==
    Delegates("revoke_orders", "POST", "/v1/order/orders/batchcancel", PyNone,
              PyDict(<< <<"order_id", str_join(",", order_ids)>>,
                        <<"client_order_id", str_join(",", client_order_ids)>> >>),
              TRUE)

\* Lines 237-265.
revoke_open_orders(account_id, symbol, side, size) ==
    LET b1 == SetIf(Truthy(account_id), <<>>, "account_id", account_id)
        b2 == SetIf(Truthy(symbol), b1, "symbol", str_join(",", symbol))
        b3 == SetIf(Truthy(side), b2, "side", side)
        b4 == SetIf(Truthy(size), b3, "size", size)
    IN Delegates("revoke_open_orders", "POST", "/v1/order/orders/batchCancelOpenOrders",
                 PyNone, PyDict(b4), TRUE)

\* Lines 267-286.
get_order_info(contract_code, order_ids, client_order_ids) ==
    Delegates("get_order_info", "POST", "/linear-swap-api/v1/swap_order_info", PyNone,
              PyDict(<< <<"contract_code", contract_code>>,
                        <<"order_id", str_join(",", order_ids)>>,
                        <<"client_order_id", str_join(",", client_order_ids)>> >>),
              TRUE)

\* Lines 288-300.
get_order_detail(order_id) ==
    Delegates("get_order_detail", "POST", "/v1/order/orders/" \o order_id.s, PyNone,
              PyDict(<< <<"order_id", order_id>> >>), TRUE)

\* Lines 302-331.
get_open_orders(account_id, symbol, side, _from, direct, size) ==
    LET b0 == << <<"account-id", account_id>>, <<"symbol", symbol>>, <<"size", size>> >>
        b1 == SetIf(Truthy(side), b0, "side", side)
        b2 == SetIf(Truthy(_from), b1, "from", _from)
        b3 == SetIf(Truthy(direct), b2, "direct", direct)
    IN Delegates("get_open_orders", "POST", "/v1/order/openOrders", PyNone, PyDict(b3),
                 TRUE)

\* Lines 334-350: the dict of lines 344-348 reads currency, a name bound nowhere
\* (the parameter is curency).
create_etp(etpName, value, curency) == Fails("create_etp", "NameError")

\* Lines 352-367.
redempt_etp(etpName, currency, amount) ==
    Delegates("redempt_etp", "POST", "/v2/etp/redemption", PyNone,
              PyDict(<< <<"etpName", etpName>>, <<"currency", currency>>,
                        <<"amount", amount>> >>),
              TRUE)

\* Lines 390-427: the test of line 424 reads fromID, a name bound nowhere (the
\* parameter is fromId); the dict built before it is dropped.
get_etp_transactions(etpNames, currencies, transactTypes, transactStatus, startTime, endTime, sort, limit, fromId) ==
    Fails("get_etp_transactions", "NameError")

\* Lines 429-444.
get_etp_transaction(transactId) ==
    Delegates("get_etp_transaction", "GET", "/v2/etp/transaction",
              PyDict(<< <<"transactId", transactId>> >>), PyNone, FALSE)

\* Lines 446-477.
get_etp_rebalance(symbol, rebalTypes, startTime, endTime, sort, limit, fromId) ==
    LET p0 == << <<"symbol", symbol>>, <<"limit", limit>> >>
        p1 == SetIf(Truthy(rebalTypes), p0, "rebalTypes", str_join(",", rebalTypes))
        p2 == SetIf(Truthy(startTime), p1, "startTime", startTime)
        p3 == SetIf(Truthy(endTime), p2, "endTime", endTime)
        p4 == SetIf(Truthy(sort), p3, "sort", sort)
        p5 == SetIf(Truthy(fromId), p4, "fromId", fromId)
    IN Delegates("get_etp_rebalance", "GET", "/v2/etp/rebalance", PyDict(p5), PyNone,
                 FALSE)

\* Lines 481-525: the call of line 524 passes no auth, so request() takes its
\* default auth=False; line 508 writes states under the test of types.
get_history_orders(symbol, types, start_time, end_time, start_date, end_date, states, _from, direct, size) ==
    LET p0 == << <<"symbol", symbol>>, <<"states", states>> >>
        p1 == SetIf(Truthy(types), p0, "states", str_join(",", states))
        p2 == SetIf(Truthy(start_time), p1, "start-time", start_time)
        p3 == SetIf(Truthy(end_time), p2, "end-time", end_time)
        p4 == SetIf(Truthy(start_date), p3, "start-date", start_date)
        p5 == SetIf(Truthy(end_date), p4, "end-date", end_date)
        p6 == SetIf(Truthy(_from), p5, "from", _from)
        p7 == SetIf(Truthy(direct), p6, "direct", direct)
        p8 == SetIf(Truthy(size), p7, "size", size)
    IN Delegates("get_history_orders", "GET", "/v1/order/orders", PyDict(p8), PyNone,
                 FALSE)

\* Lines 527-544.
transfer_between_spot_future(symbol, amount, type_s) ==
    Delegates("transfer_between_spot_future", "POST",
              "https://api.huobi.pro/v1/futures/transfer", PyNone,
              PyDict(<< <<"currency", symbol>>, <<"amount", amount>>,
                        <<"type", type_s>> >>),
              TRUE)

\* The arguments endpoint methods are invoked with.
Symbol == PyStr("btcusdt")

Optional == {PyNone, PyStr("5")}

OrderIds == {PyList(<<>>), PyList(<<PyStr("7"), PyStr("8")>>)}

States == {PyList(<<>>), PyList(<<PyStr("filled"), PyStr("canceled")>>)}

\* The invocations of the endpoint methods, each with its outcome: the call of
\* request() it makes, or the exception it raises before.
Invocations ==
    {get_etp_reference(n) : n \in {PyNone, PyStr("btc3l")}}
    \cup {get_orderbook(Symbol, d) : d \in Optional}
    \cup {get_klines(Symbol, PyStr("1min"), n) : n \in Optional}
    \cup {get_etp_nav(Symbol)}
    \cup {create_order(PyStr("spot"), Symbol, PyStr("buy-limit"), PyStr("1"), p, s,
                       PyNone, PyNone, o) :
            p \in Optional, s \in {PyStr("spot-api"), PyStr("")},
            o \in {PyNone, PyStr(">=")}}
    \cup {create_orders(PyStr("spot-api"),
              PyDict(<< <<"orders_data",
                          PyList(<<PyDict(<< <<"symbol", Symbol>> >>)>>)>> >>))}
    \cup {revoke_order(i) : i \in {PyStr(""), PyStr("7")}}
    \cup {revoke_client_order(i) : i \in {PyStr(""), PyStr("a7")}}
    \cup {revoke_orders(i, j) : i \in OrderIds, j \in OrderIds}
    \cup {revoke_open_orders(a, PyList(<<Symbol>>), PyStr("buy"), n) :
            a \in {PyStr(""), PyStr("spot")}, n \in Optional}
    \cup {get_order_info(PyStr("BTC-USDT"), i, PyList(<<>>)) : i \in OrderIds}
    \cup {get_order_detail(PyStr("7"))}
    \cup {get_open_orders(PyStr("spot"), Symbol, s, PyStr(""), PyStr(""), PyInt("100")) :
            s \in {PyStr(""), PyStr("buy")}}
    \cup {create_etp(PyStr("btc3l"), PyStr("1"), PyStr("usdt"))}
    \cup {redempt_etp(PyStr("btc3l"), PyStr("usdt"), PyStr("1"))}
    \cup {get_etp_transactions(PyList(<<>>), PyList(<<>>), PyStr(""), PyStr(""), PyNone,
                               PyNone, PyStr(""), PyInt("100"), n) : n \in Optional}
    \cup {get_etp_transaction(PyStr("7"))}
    \cup {get_etp_rebalance(Symbol, PyList(<<>>), PyNone, PyNone, s, PyInt("100"),
                            PyNone) : s \in {PyStr(""), PyStr("asc")}}
    \cup {get_history_orders(Symbol, t, PyNone, PyNone, PyStr(""), PyStr(""), s,
                             PyStr(""), PyStr(""), n) :
            t \in {PyList(<<>>), PyList(<<PyStr("buy-limit")>>)}, s \in States,
            n \in {PyStr(""), PyStr("5")}}
    \cup {transfer_between_spot_future(PyStr("btc"), PyStr("1"), t) :
            t \in {PyStr("pro-to-futures"), PyStr("futures-to-pro")}}

\* An endpoint method is invoked as call c: it raises, or it enters request() with
\* the arguments it built and request() resolves the url (lines 44-544, 546-564).
\* The params dict the method built is a new object.
Invoke(c) ==
    /\ running = 0
    /\ pc[c] = "Idle"
    /\ \A d \in Calls : d < c => pc[d] # "Idle"
    /\ \E inv \in Invocations :
        /\ endpoint' = [endpoint EXCEPT ![c] = inv.endpoint]
        /\ IF inv.exc # ""
           THEN /\ pc' = [pc EXCEPT ![c] = "Raised"]
                /\ outcome' = [outcome EXCEPT ![c] = Raised(inv.exc)]
                /\ UNCHANGED <<heap, running, args, entry, url, params>>
           ELSE LET id == IF inv.params.type = "dict" THEN Len(heap) + 1 ELSE 0
                IN /\ heap' = IF id = 0 THEN heap ELSE Append(heap, inv.params.items)
                   /\ args' = [args EXCEPT ![c] =
                                   [method |-> inv.method, uri |-> inv.uri, params |-> id,
                                    body |-> inv.body, headers |-> PyNone,
                                    auth |-> inv.auth]]
                   /\ entry' = [entry EXCEPT ![c] = inv.params]
                   /\ url' = [url EXCEPT ![c] = ResolveUrl(inv.uri)]
                   /\ params' = [params EXCEPT ![c] =
                                    IF id = 0 THEN NoParams
                                    ELSE [kind |-> "ref", id |-> id, items |-> <<>>]]
                   /\ pc' = [pc EXCEPT ![c] = "Building"]
                   /\ running' = c
                   /\ outcome' = outcome
    /\ UNCHANGED <<host, access_key, secret_key, now, stamps, signed, sent, reply>>

\* Several calls on one client, entered while others are in flight.
Next ==
    \/ Tick
    \/ \E c \in Calls : Call(c, SharedRequests)
    \/ \E c \in Calls : Augment(c)
    \/ \E c \in Calls : Sign(c)
    \/ \E c \in Calls : Send(c)
    \/ \E c \in Calls : Respond(c, Responses)

Spec == Init /\ [][Next]_vars

\* One call, over all the arguments.
NextCall ==
    \/ Tick
    \/ Call(1, Requests)
    \/ Augment(1)
    \/ Sign(1)
    \/ Send(1)
    \/ Respond(1, Responses)

SpecCall == Init /\ [][NextCall]_vars

\* One call made through an endpoint method.
NextEndpoint ==
    \/ Tick
    \/ Invoke(1)
    \/ Augment(1)
    \/ Sign(1)
    \/ Send(1)
    \/ Respond(1, Responses)

SpecEndpoint == Init /\ [][NextEndpoint]_vars

(***************************************************************************)
(* Properties.                                                              *)
(***************************************************************************)

\* The states in which a call has ended.
Ended == {"Succeeded", "TransportFailed", "ApplicationRejected", "Raised"}

Ok == PyStr("ok")

\* C1: every call of request() that has ended has returned (None, transportError)
\* when the transport reported an error, (None, envelope) when the envelope's
\* status is absent or not "ok", and (envelope, None) when it is "ok"; never
\* anything else, and never both a result and an error.
C1_ExactlyOneOutcome ==
    \A c \in Calls :
        pc[c] \in Ended =>
            LET r == reply[c]
                o == outcome[c]
            IN /\ o.kind = "return"
               /\ \/ /\ Truthy(r.error)
                     /\ o.result = PyNone
                     /\ o.error = r.error
                  \/ /\ ~Truthy(r.error)
                     /\ o.result = PyNone
                     /\ o.error.type = "dict"
                     /\ Get(o.error.items, "status") # Ok
                  \/ /\ ~Truthy(r.error)
                     /\ o.error = PyNone
                     /\ o.result.type = "dict"
                     /\ Get(o.result.items, "status") = Ok

\* C8: whatever the transport returned (an error, a body that is no valid JSON, a
\* decoded body that is no object), the call does not raise: it returns, and a
\* None result comes with an error.
C8_FailuresAreReturned ==
    \A c \in Calls :
        reply[c].received =>
            /\ outcome[c].kind = "return"
            /\ outcome[c].result = PyNone => outcome[c].error # PyNone

\* C7: an authenticated call on a client whose access key or secret key is None or
\* empty never invokes the transport, and ends with an error.
C7_FailsFastWithoutCredentials ==
    \A c \in Calls :
        (args[c].auth /\ (~Truthy(access_key) \/ ~Truthy(secret_key))) =>
            /\ sent[c] = <<>>
            /\ pc[c] \in Ended =>
                   \/ outcome[c].kind = "raise"
                   \/ outcome[c].kind = "return" /\ outcome[c].error # PyNone

\* C2: the string an authenticated call signs never contains the Signature field:
\* whatever mapping the caller supplied, the payload signed is the canonical
\* payload of the mapping with Signature removed.
C2_SignatureNeverSigned ==
    \A c \in Calls : \A i \in DOMAIN signed[c] :
        LET e == signed[c][i]
        IN e.payload =
               <<CanonicalPayload(e.method, Without(e.items, "Signature"), e.request_path)>>

\* str.upper, on ASCII.
RECURSIVE Upper(_)
Upper(s) ==
    IF s = "" THEN ""
    ELSE IF Len(s) = 1
         THEN (IF Ord[s] >= 97 /\ Ord[s] <= 122 THEN Chr(Ord[s] - 32) ELSE s)
    ELSE Upper(SubSeq(s, 1, Len(s) \div 2)) \o Upper(SubSeq(s, Len(s) \div 2 + 1, Len(s)))

\* The items in the opposite insertion order.
Reversed(items) == [i \in 1..Len(items) |-> items[Len(items) + 1 - i]]

\* C3: the payload signed is exactly four fields joined by newlines: the method in
\* upper case (whatever the case of the argument), the hostname, the path, and the
\* query string of the mapping sorted ascending by key; and the same items in the
\* opposite insertion order give the same payload.
C3_CanonicalPayload ==
    \A c \in Calls : \A i \in DOMAIN signed[c] :
        LET e == signed[c][i]
            f == Split(e.payload[1], "\n")
        IN /\ Len(f) = 4
           /\ f[1] = Upper(e.method)
           /\ f[2] = SignedHost(e.request_path).s
           /\ f[3] = SignedPath(e.request_path)
           /\ f[4] = urlencode(SortedByKey(e.items))
           /\ \A j \in 1..(Len(SortedByKey(e.items)) - 1) :
                  StrLess(SortedByKey(e.items)[j][1], SortedByKey(e.items)[j + 1][1])
           /\ CanonicalPayload(e.method, Reversed(e.items), e.request_path) = e.payload[1]

\* urlparse(url).path of an absolute url: what follows the netloc, up to ? or #.
UrlPath(u) ==
    LET start == FindFrom(u, {"/", "?", "#"}, SchemeColon(u) + 3)
    IN SubSeq(u, start, FindFrom(u, {"?", "#"}, start) - 1)

\* C6: for an absolute uri the url handed to the transport is the uri itself, and
\* the payload signed holds the uri's hostname, lower-cased, and its path-only
\* component; for a relative uri it holds the configured host's hostname.
C6_AbsoluteUrl ==
    \A c \in Calls :
        /\ \A j \in DOMAIN sent[c] :
               IsAbsolute(args[c].uri) => sent[c][j].url = args[c].uri
        /\ \A i \in DOMAIN signed[c] :
               LET f == Split(signed[c][i].payload[1], "\n")
               IN IF IsAbsolute(args[c].uri)
                  THEN /\ f[2] = Lower(Hostname(args[c].uri).s)
                       /\ f[3] = UrlPath(args[c].uri)
                  ELSE f[2] = Hostname(host).s

\* C10: each call's transmitted mapping, Timestamp and Signature are its own: the
\* transmitted Timestamp is the one the call captured, and the transmitted
\* Signature is the signature of the call's own transmitted mapping without
\* Signature, whatever the other calls on the client do.
C10_CallsShareNothing ==
    \A c \in Calls : \A j \in DOMAIN sent[c] :
        args[c].auth =>
            LET m == sent[c][j].params.items
            IN /\ Get(m, "Timestamp") = PyStr(stamps[c][Len(stamps[c])])
               /\ Get(m, "Signature") =
                      PyStr(generate_signature(args[c].method, Without(m, "Signature"),
                                               args[c].uri).value)

\* The five keys an authenticated call adds.
AuthKeys == {"AccessKeyId", "SignatureMethod", "SignatureVersion", "Timestamp", "Signature"}

\* C4: the mapping handed to the transport is the caller's own when auth is false;
\* when auth is true it is the caller's mapping plus exactly the five auth keys,
\* AccessKeyId the configured access key, SignatureMethod "HmacSHA256",
\* SignatureVersion "2", Timestamp the captured timestamp; the first four were in
\* the mapping the Signature Engine was invoked with, and Signature is the one
\* entry set after it (the last item when the caller's mapping had none).
C4_AuthAugmentation ==
    \A c \in Calls : \A j \in DOMAIN sent[c] :
        LET f == sent[c][j]
            given == entry[c].items
            m == f.params.items
            e == signed[c][Len(signed[c])]
        IN IF ~args[c].auth
           THEN f.params = entry[c]
           ELSE /\ f.params.type = "dict"
                /\ Keys(m) = Keys(given) \cup AuthKeys
                /\ Len(m) = Cardinality(Keys(m))
                /\ \A k \in Keys(given) \ AuthKeys : Get(m, k) = Get(given, k)
                /\ Get(m, "AccessKeyId") = access_key
                /\ Get(m, "SignatureMethod") = PyStr("HmacSHA256")
                /\ Get(m, "SignatureVersion") = PyStr("2")
                /\ Get(m, "Timestamp") = PyStr(stamps[c][1])
                /\ \E n \in 0..now : stamps[c][1] = Strftime(n)
                /\ signed[c] # <<>>
                /\ \A k \in AuthKeys \ {"Signature"} :
                       k \in Keys(e.items) /\ Get(e.items, k) = Get(m, k)
                /\ Without(m, "Signature") = Without(e.items, "Signature")
                /\ "Signature" \notin Keys(given) =>
                       /\ "Signature" \notin Keys(e.items)
                       /\ m[Len(m)][1] = "Signature"

\* An authenticated call with a caller's mapping of two entries has invoked the
\* transport.
C4_Witness ==
    \E c \in Calls :
        /\ args[c].auth
        /\ sent[c] # <<>>
        /\ Len(entry[c].items) = 2
        /\ Len(sent[c][1].params.items) = 7

\* Whether the headers hold name (in any letter case) with this value.
HasHeader(headers, name, value) ==
    \E i \in DOMAIN headers :
        Lower(headers[i][1]) = Lower(name) /\ headers[i][2] = PyStr(value)

\* C5: a GET call hands the transport no body; a POST, PUT or DELETE call hands it
\* the caller's body unchanged, with Accept and Content-Type application/json; every
\* call carries the User-Agent header.
C5_Encoding ==
    \A c \in Calls : \A j \in DOMAIN sent[c] :
        LET f == sent[c][j]
        IN /\ args[c].method = "GET" => f.data = PyNone
           /\ args[c].method \in {"POST", "PUT", "DELETE"} =>
                  /\ f.data = args[c].body
                  /\ HasHeader(f.headers, "Accept", "application/json")
                  /\ HasHeader(f.headers, "Content-Type", "application/json")
           /\ HasHeader(f.headers, "User-Agent", USER_AGENT)

\* A GET call that was given a body, and headers of its own, has invoked the
\* transport.
C5_Witness ==
    \E c \in Calls :
        /\ args[c].method = "GET"
        /\ args[c].body # PyNone
        /\ Truthy(args[c].headers)
        /\ sent[c] # <<>>

\* The order of a call's states.
Rank(p) ==
    CASE p = "Idle" -> 0
      [] p = "Building" -> 1
      [] p = "Signing" -> 2
      [] p = "Signed" -> 3
      [] p = "InFlight" -> 4
      [] OTHER -> 5

\* The steps of the per-call state machine.
Step(c, p, q) ==
    \/ p = "Idle" /\ q = "Building"
    \/ p = "Building" /\ q = "Signing" /\ args[c].auth
    \/ p = "Building" /\ q = "InFlight" /\ ~args[c].auth
    \/ p = "Signing" /\ q \in {"Signed", "Raised"}
    \/ p = "Signed" /\ q = "InFlight"
    \/ p = "InFlight" /\ q \in Ended

EndpointTable ==
    [e \in {"get_etp_reference", "get_orderbook", "get_klines", "get_etp_nav",
            "get_etp_transactions", "get_etp_transaction", "get_etp_rebalance"} |->
        [method |-> "GET", auth |-> FALSE]]
    @@ [e \in {"create_order", "create_orders", "revoke_order", "revoke_client_order",
               "revoke_orders", "revoke_open_orders", "get_order_info",
               "get_order_detail", "get_open_orders", "create_etp", "redempt_etp",
               "transfer_between_spot_future"} |->
        [method |-> "POST", auth |-> TRUE]]
    @@ [e \in {"get_history_orders"} |-> [method |-> "GET", auth |-> TRUE]]

\* Call c was made by an endpoint method and has entered request().
Delegated(c) == endpoint[c] # "" /\ pc[c] \in {"Building", "Signing", "Signed", "InFlight"}

\* C11: a call that an endpoint method delegated to request() carries the HTTP
\* method and the auth flag the endpoint table gives for that endpoint: auth is
\* true for every endpoint marked Auth = yes and false for every one marked no.
C11_EndpointDispatch ==
    \A c \in Calls :
        Delegated(c) =>
            /\ args[c].method = EndpointTable[endpoint[c]].method
            /\ args[c].auth = EndpointTable[endpoint[c]].auth

\* C12: for an authenticated call whose method is GET, POST, PUT or DELETE, the
\* method in the first field of the signed canonical payload is the method handed
\* to AsyncHttpRequests.fetch.
C12_SignedMethodIsSentMethod ==
    \A c \in Calls :
        (NeedsAuth(c) /\ args[c].method \in {"GET", "POST", "PUT", "DELETE"}) =>
            \A i \in DOMAIN sent[c] : \A j \in DOMAIN signed[c] :
                signed[c][j].payload # <<>> =>
                    Split(signed[c][j].payload[1], "\n")[1] = sent[c][i].method

====
